---- MODULE Spec2Model ----
(***************************************************************************)
(* Model of chessz3.py: ChessAIEngine (get_best_move, minimax with        *)
(* alpha-beta pruning, evaluate) and the part of ChessGame that drives it *)
(* (__init__, handle_click, make_ai_move, check_game_over).               *)
(*                                                                         *)
(* python-chess is an external library.  A position is identified by the  *)
(* move stack that leads to it from the initial position of a game; what  *)
(* the library answers about a position (its ordered legal moves, why the *)
(* game is over there, what stands on the board) is an input, fixed per   *)
(* game.  The games are drawn in Init from the family Games: game g       *)
(* assigns every position its answers by the mixing function Mix.         *)
(* A move is named by its place in board.legal_moves of the position it   *)
(* is played from (1 = first enumerated).                                 *)
(*                                                                         *)
(* The recursion of get_best_move / minimax is run one step at a time on  *)
(* an explicit call stack (frames), so that the shared board can be       *)
(* observed between a push and its pop.                                   *)
(***************************************************************************)
EXTENDS Integers, Sequences, FiniteSets

(***************************** bounds **************************************)
\* number of games (rule-adapter answer tables) drawn in Init: 0..NumGames
NumGames == 150
\* most legal moves a position has
MaxBranch == 3
\* longest line of play: a position this many plies from the initial
\* position is over (checkmate, stalemate or insufficient material)
MaxPly == 4
\* material of one side, in units, ranges over 0..MaxMaterial
MaxMaterial == 2
\* engine depths given to ChessAIEngine(depth) when it is used directly
MaxDepth == 3

(************************** program constants ******************************)
\* ChessAIEngine(depth=3)
DefaultDepth == 3
\* chess.WHITE, chess.BLACK
WHITE == TRUE
BLACK == FALSE
\* Python's None, as a move (moves are 1..MaxBranch) and as a square
None == 0
\* math.inf: beyond every value evaluate can return
Inf == 2 * MaxMaterial + 1

Games == 0..NumGames
Max(a, b) == IF a >= b THEN a ELSE b
Min(a, b) == IF a <= b THEN a ELSE b
Front(s) == SubSeq(s, 1, Len(s) - 1)

(************************ the rules adapter ********************************)
\* a number naming the position reached by move stack s
RECURSIVE Code(_)
Code(s) == IF s = <<>> THEN 1 ELSE Code(Front(s)) * (MaxBranch + 2) + s[Len(s)]

\* the answer table of game g: a fixed pseudo-random number per question
Mix(g, s, salt) ==
    ((g * 7919 + Code(s) * 104729 + salt * 1299709 + g * Code(s) * 31
      + g * salt * 17) % 65521) \div 16

\* why the game is over at the position, or "none"
Outcome(g, s) ==
    LET h == Mix(g, s, 1) % 16 IN
    IF Len(s) >= MaxPly
    THEN CASE h % 3 = 0 -> "checkmate"
           [] h % 3 = 1 -> "stalemate"
           [] OTHER     -> "insufficient_material"
    ELSE CASE h = 0 -> "checkmate"
           [] h = 1 -> "stalemate"
           [] h = 2 -> "insufficient_material"
           [] h = 3 -> "seventyfive_moves"
           [] OTHER -> "none"

\* len(list(board.legal_moves)): none exactly on checkmate and stalemate
NumLegal(g, b) ==
    IF Outcome(g, b.move_stack) \in {"checkmate", "stalemate"}
    THEN 0
    ELSE 1 + (Mix(g, b.move_stack, 2) % MaxBranch)

\* board.legal_moves, in enumeration order
legal_moves(g, b) == 1..NumLegal(g, b)

is_checkmate(g, b) == Outcome(g, b.move_stack) = "checkmate"
is_stalemate(g, b) == Outcome(g, b.move_stack) = "stalemate"
is_insufficient_material(g, b) == Outcome(g, b.move_stack) = "insufficient_material"
\* board.is_game_over(): any of the library's end conditions
is_game_over(g, b) == Outcome(g, b.move_stack) # "none"

\* board.push(move) and board.pop(): the side to move flips both ways
push(b, m) == [move_stack |-> Append(b.move_stack, m), turn |-> ~b.turn]
pop(b) == [move_stack |-> Front(b.move_stack), turn |-> ~b.turn]

\* chess.Board() with the given side to move
NewBoard(t) == [move_stack |-> <<>>, turn |-> t]

(***************************** evaluate *************************************)
\* what the loop over chess.SQUARES adds for White, and subtracts for Black
WhiteValue(g, b) == Mix(g, b.move_stack, 3) % (MaxMaterial + 1)
BlackValue(g, b) == Mix(g, b.move_stack, 4) % (MaxMaterial + 1)
\* the score is absolute: positive favours White whoever is to move
evaluate(g, b) == WhiteValue(g, b) - BlackValue(g, b)

VARIABLES
    game,            \* the game whose positions the board walks
    board,           \* the one shared chess.Board
    depth,           \* ChessAIEngine.depth
    frames,          \* call stack of get_best_move / minimax activations
    ret,             \* value returned by the minimax call that ended last
    result,          \* move returned by the get_best_move call that ended last
    pc,              \* where the caller of the engine stands
    ai_color, game_over, selected_square,      \* ChessGame fields
    board0,          \* history: the board when the running call was made
    values,          \* history: the value of each root move, in order
    pushes, pops,    \* history: board.push / board.pop calls of the call
    cuts,            \* history: loops of the call left by break
    last             \* history: the step taken last

vars == <<game, board, depth, frames, ret, result, pc, ai_color, game_over,
          selected_square, board0, values, pushes, pops, cuts, last>>

gameVars == <<ai_color, game_over, selected_square>>

(************************** ChessAIEngine **********************************)
Top == frames[Len(frames)]
Caller == Front(frames)
SetTop(f) == [frames EXCEPT ![Len(frames)] = f]

\* terminal test of minimax
IsTerminalDepthOnly(d, g, b) == d = 0
IsTerminal(d, g, b) == d = 0 \/ is_game_over(g, b)

\* best_move = None
BestMoveInitFirst(g, b) == 1
BestMoveInit(g, b) == None

\* value > best_value
BetterOrEqual(value, best_value) == value >= best_value
Better(value, best_value) == value > best_value

\* the maximizing flag get_best_move gives its children
RootFlagBySide(b) == b.turn = WHITE
RootFlag(b) == FALSE

\* the depth a call gives its children
ChildDepthSame(d) == d
ChildDepth(d) == d - 1

\* if beta <= alpha: break
PruneNever(alpha, beta) == FALSE
PruneEager(alpha, beta) == beta <= alpha + 1
Prune(alpha, beta) == beta <= alpha

\* max_eval = max(max_eval, eval) / min_eval = min(min_eval, eval)
NewEval(f, v) == IF f.maximizing THEN Max(f.ev, v) ELSE Min(f.ev, v)
\* alpha = max(alpha, eval), in the maximizing branch only
NewAlpha(f, v) == IF f.maximizing THEN Max(f.alpha, v) ELSE f.alpha
\* beta = min(beta, eval), in the minimizing branch only
NewBeta(f, v) == IF f.maximizing THEN f.beta ELSE Min(f.beta, v)

\* board.pop() of minimax, run before the bounds are looked at
UndoUnlessPruned(b, f, v) ==
    IF NewBeta(f, v) <= NewAlpha(f, v) THEN b ELSE pop(b)
Undo(b, f, v) == pop(b)

\* board.pop() of get_best_move
RootUndoSkipped(b) == b
RootUndo(b) == pop(b)

\* the activation of get_best_move on board b; ev is best_value
GbmFrame(b) ==
    [fn |-> "get_best_move", pc |-> "loop", depth |-> depth,
     alpha |-> -Inf, beta |-> Inf, maximizing |-> TRUE, i |-> 1,
     ev |-> -Inf, best_move |-> BestMoveInit(game, b), entry |-> b,
     a0 |-> -Inf, b0 |-> Inf]

MmFrame(d, alpha, beta, maximizing, b) ==
    [fn |-> "minimax", pc |-> "entry", depth |-> d,
     alpha |-> alpha, beta |-> beta, maximizing |-> maximizing, i |-> 1,
     ev |-> IF maximizing THEN -Inf ELSE Inf, best_move |-> None,
     entry |-> b, a0 |-> alpha, b0 |-> beta]

NoEvent == [op |-> "none", depth |-> 0, maximizing |-> FALSE, a0 |-> 0, b0 |-> 0,
            move |-> None, pruned |-> FALSE]
Event(op, f, m, pruned) ==
    [op |-> op, depth |-> f.depth, maximizing |-> f.maximizing,
     a0 |-> f.a0, b0 |-> f.b0, move |-> m, pruned |-> pruned]

\* start of a get_best_move call on board b
EnterGetBestMove(b) ==
    /\ frames' = <<GbmFrame(b)>>
    /\ board0' = b
    /\ values' = <<>>
    /\ pushes' = 0
    /\ pops' = 0
    /\ cuts' = 0
    /\ result' = None
    /\ ret' = 0
    /\ last' = Event("call", GbmFrame(b), None, FALSE)

\* get_best_move: for move in board.legal_moves: board.push(move); minimax(...)
GbmPush ==
    /\ frames # <<>>
    /\ Top.fn = "get_best_move"
    /\ Top.pc = "loop"
    /\ Top.i \in legal_moves(game, board)
    /\ LET child == push(board, Top.i) IN
        /\ board' = child
        /\ frames' = Append(SetTop([Top EXCEPT !.pc = "wait"]),
                            MmFrame(ChildDepth(Top.depth), -Inf, Inf,
                                    RootFlag(child), child))
    /\ pushes' = pushes + 1
    /\ last' = Event("push", Top, Top.i, FALSE)
    /\ UNCHANGED <<game, depth, ret, result, pc, gameVars, board0, values, pops, cuts>>

\* get_best_move: board.pop(); if value > best_value: ...
GbmPop ==
    /\ frames # <<>>
    /\ Top.fn = "get_best_move"
    /\ Top.pc = "wait"
    /\ board' = RootUndo(board)
    /\ frames' = SetTop([Top EXCEPT
                           !.pc = "loop",
                           !.i = @ + 1,
                           !.ev = IF Better(ret, Top.ev) THEN ret ELSE @,
                           !.best_move = IF Better(ret, Top.ev) THEN Top.i ELSE @])
    /\ values' = Append(values, ret)
    /\ pops' = pops + 1
    /\ last' = Event("pop", Top, Top.i, FALSE)
    /\ UNCHANGED <<game, depth, ret, result, pc, gameVars, board0, pushes, cuts>>

\* get_best_move: return best_move
GbmReturn ==
    /\ frames # <<>>
    /\ Top.fn = "get_best_move"
    /\ Top.pc = "loop"
    /\ Top.i \notin legal_moves(game, board)
    /\ result' = Top.best_move
    /\ frames' = Caller
    /\ last' = Event("gbm_return", Top, Top.best_move, FALSE)
    /\ UNCHANGED <<game, board, depth, ret, pc, gameVars, board0, values, pushes, pops, cuts>>

\* minimax: if depth == 0 or board.is_game_over(): return self.evaluate(board)
MmBase ==
    /\ frames # <<>>
    /\ Top.fn = "minimax"
    /\ Top.pc = "entry"
    /\ IsTerminal(Top.depth, game, board)
    /\ ret' = evaluate(game, board)
    /\ frames' = Caller
    /\ last' = Event("base", Top, None, FALSE)
    /\ UNCHANGED <<game, board, depth, result, pc, gameVars, board0, values, pushes, pops, cuts>>

\* minimax: max_eval = -math.inf / min_eval = math.inf, then the loop
MmLoop ==
    /\ frames # <<>>
    /\ Top.fn = "minimax"
    /\ Top.pc = "entry"
    /\ ~IsTerminal(Top.depth, game, board)
    /\ frames' = SetTop([Top EXCEPT !.pc = "loop"])
    /\ last' = Event("loop", Top, None, FALSE)
    /\ UNCHANGED <<game, board, depth, ret, result, pc, gameVars, board0, values,
                   pushes, pops, cuts>>

\* minimax: board.push(move); eval = self.minimax(board, depth-1, alpha, beta, not maximizing)
MmPush ==
    /\ frames # <<>>
    /\ Top.fn = "minimax"
    /\ Top.pc = "loop"
    /\ Top.i \in legal_moves(game, board)
    /\ LET child == push(board, Top.i) IN
        /\ board' = child
        /\ frames' = Append(SetTop([Top EXCEPT !.pc = "wait"]),
                            MmFrame(ChildDepth(Top.depth), Top.alpha, Top.beta,
                                    ~Top.maximizing, child))
    /\ pushes' = pushes + 1
    /\ last' = Event("push", Top, Top.i, FALSE)
    /\ UNCHANGED <<game, depth, ret, result, pc, gameVars, board0, values, pops, cuts>>

\* minimax: board.pop(); update max_eval/alpha or min_eval/beta;
\* if beta <= alpha: break
MmPop ==
    /\ frames # <<>>
    /\ Top.fn = "minimax"
    /\ Top.pc = "wait"
    /\ LET a == NewAlpha(Top, ret)
           b == NewBeta(Top, ret)
       IN /\ board' = Undo(board, Top, ret)
          /\ frames' = SetTop([Top EXCEPT
                                 !.ev = NewEval(Top, ret),
                                 !.alpha = a,
                                 !.beta = b,
                                 !.i = IF Prune(a, b) THEN @ ELSE @ + 1,
                                 !.pc = IF Prune(a, b) THEN "break" ELSE "loop"])
          /\ last' = Event("pop", Top, Top.i, Prune(a, b))
    /\ pops' = pops + 1
    /\ cuts' = IF Prune(NewAlpha(Top, ret), NewBeta(Top, ret)) THEN cuts + 1 ELSE cuts
    /\ UNCHANGED <<game, depth, ret, result, pc, gameVars, board0, values, pushes>>

\* minimax: return max_eval / return min_eval
MmReturn ==
    /\ frames # <<>>
    /\ Top.fn = "minimax"
    /\ \/ Top.pc = "break"
       \/ Top.pc = "loop" /\ Top.i \notin legal_moves(game, board)
    /\ ret' = Top.ev
    /\ frames' = Caller
    /\ last' = Event("return", Top, None, Top.pc = "break")
    /\ UNCHANGED <<game, board, depth, result, pc, gameVars, board0, values, pushes, pops, cuts>>

EngineStep ==
    \/ GbmPush
    \/ GbmPop
    \/ GbmReturn
    \/ MmBase
    \/ MmLoop
    \/ MmPush
    \/ MmPop
    \/ MmReturn

(************************ the engine used directly *************************)
\* engine.get_best_move(board)
CallGetBestMove ==
    /\ pc = "ready"
    /\ pc' = "get_best_move"
    /\ EnterGetBestMove(board)
    /\ UNCHANGED <<game, board, depth, gameVars>>

\* engine.minimax(board, engine.depth, -math.inf, math.inf, m)
CallMinimax ==
    /\ pc = "ready"
    /\ \E m \in BOOLEAN :
        /\ frames' = <<MmFrame(depth, -Inf, Inf, m, board)>>
        /\ last' = Event("call", MmFrame(depth, -Inf, Inf, m, board), None, FALSE)
    /\ pc' = "minimax"
    /\ board0' = board
    /\ values' = <<>>
    /\ pushes' = 0
    /\ pops' = 0
    /\ cuts' = 0
    /\ result' = None
    /\ ret' = 0
    /\ UNCHANGED <<game, board, depth, gameVars>>

(******************************* ChessGame *********************************)
\* self.human_color = not ai_color
human_color == ~ai_color

\* The squares of the model.  The piece that makes legal move m stands on
\* square m; ToSquare is where it goes.  No position of the model has a pawn
\* one step from promotion, so handle_click never opens the promotion menu.
Squares == 1..(MaxBranch + 1)
ToSquare(g, b, m) ==
    ((m + (Mix(g, b.move_stack, 4 + m) % MaxBranch)) % (MaxBranch + 1)) + 1

\* piece = board.piece_at(square); piece and piece.color == side to move
OwnPieceAt(g, b, sq) ==
    \/ sq \in legal_moves(g, b)
    \/ /\ \A m \in legal_moves(g, b) : ToSquare(g, b, m) # sq
       /\ Mix(g, b.move_stack, 9 + sq) % 2 = 0

\* chess.Move(selected_square, square) as a member of board.legal_moves,
\* None when it is not in board.legal_moves
LegalMoveAt(g, b, from, to) ==
    IF from \in legal_moves(g, b) /\ ToSquare(g, b, from) = to THEN from ELSE None

\* check_game_over: the new value of self.game_over
CheckGameOverNoStalemate(g, b, old) ==
    IF is_checkmate(g, b) THEN TRUE
    ELSE IF is_insufficient_material(g, b) THEN TRUE
    ELSE old
CheckGameOver(g, b, old) ==
    IF is_checkmate(g, b) THEN TRUE
    ELSE IF is_stalemate(g, b) THEN TRUE
    ELSE IF is_insufficient_material(g, b) THEN TRUE
    ELSE old

\* make_ai_move up to the return of get_best_move, called with board b and
\* game_over = over; to is where the caller stands while the search runs
MakeAiMoveCall(b, over, to, back) ==
    IF ~over /\ b.turn = ai_color
    THEN /\ EnterGetBestMove(b)
         /\ pc' = to
    ELSE /\ pc' = back
         /\ last' = NoEvent
         /\ UNCHANGED <<frames, ret, result, board0, values, pushes, pops, cuts>>

\* ChessGame.__init__, after the fields are set:
\* if self.human_color != chess.WHITE: self.make_ai_move()
Construct ==
    /\ pc = "new"
    /\ IF human_color # WHITE
       THEN MakeAiMoveCall(board, game_over, "ai_init", "loop")
       ELSE /\ pc' = "loop"
            /\ UNCHANGED <<frames, ret, result, board0, values, pushes, pops, cuts, last>>
    /\ UNCHANGED <<game, board, depth, gameVars>>

\* handle_click(pos), square being the square under pos, up to the call of
\* get_best_move when the click makes a move the AI answers
HandleClick ==
    /\ pc = "loop"
    /\ \E square \in Squares :
        IF game_over \/ board.turn # human_color
        THEN UNCHANGED vars
        ELSE IF selected_square = None
        THEN /\ selected_square' =
                    IF OwnPieceAt(game, board, square) THEN square ELSE None
             /\ last' = NoEvent
             /\ UNCHANGED <<game, board, depth, frames, ret, result, pc, ai_color,
                            game_over, board0, values, pushes, pops, cuts>>
        ELSE LET move == LegalMoveAt(game, board, selected_square, square)
                 b1 == push(board, move)
                 over1 == CheckGameOver(game, b1, game_over)
             IN IF move = None
                THEN /\ selected_square' = None
                     /\ last' = NoEvent
                     /\ UNCHANGED <<game, board, depth, frames, ret, result, pc,
                                    ai_color, game_over, board0, values, pushes, pops, cuts>>
                ELSE /\ board' = b1
                     /\ game_over' = over1
                     /\ MakeAiMoveCall(b1, over1, "ai_click", "loop")
                     /\ selected_square' =
                            IF ~over1 /\ b1.turn = ai_color
                            THEN selected_square ELSE None
                     /\ UNCHANGED <<game, depth, ai_color>>

\* make_ai_move after get_best_move has returned: self.board.push(best_move);
\* self.check_game_over(); then handle_click ends with selected_square = None.
\* board.push(None) raises inside the library and the program ends.
AiApply ==
    /\ pc \in {"ai_init", "ai_click"}
    /\ frames = <<>>
    /\ IF result = None
       THEN /\ pc' = "crashed"
            /\ UNCHANGED <<board, game_over, selected_square>>
       ELSE /\ pc' = "loop"
            /\ board' = push(board, result)
            /\ game_over' = CheckGameOver(game, push(board, result), game_over)
            /\ selected_square' = IF pc = "ai_click" THEN None ELSE selected_square
    /\ last' = [NoEvent EXCEPT !.op = "ai_push", !.move = result]
    /\ UNCHANGED <<game, depth, frames, ret, result, ai_color, board0, values,
                   pushes, pops, cuts>>

\* ChessAIEngine(depth) used directly on the initial position of a game,
\* with either side to move
InitEngine ==
    /\ game \in Games
    /\ \E t \in BOOLEAN : board = NewBoard(t)
    /\ depth \in 0..MaxDepth
    /\ pc = "ready"
    /\ ai_color = BLACK

\* ChessGame(ai_color): chess.Board() is not over and White is to move
InitGame ==
    /\ game \in {g \in Games : ~is_game_over(g, NewBoard(WHITE))}
    /\ board = NewBoard(WHITE)
    /\ depth = DefaultDepth
    /\ pc = "new"
    /\ ai_color \in BOOLEAN

Init ==
    /\ InitEngine \/ InitGame
    /\ frames = <<>>
    /\ ret = 0
    /\ result = None
    /\ game_over = FALSE
    /\ selected_square = None
    /\ board0 = board
    /\ values = <<>>
    /\ pushes = 0
    /\ pops = 0
    /\ cuts = 0
    /\ last = NoEvent

Next ==
    \/ CallGetBestMove
    \/ CallMinimax
    \/ EngineStep
    \/ Construct
    \/ HandleClick
    \/ AiApply

Spec == Init /\ [][Next]_vars

\* the interpreter runs a call that has started to its end
FairSpec == Spec /\ WF_vars(EngineStep)

(***************************** properties **********************************)
Running == frames # <<>>
\* a get_best_move call is being run, or has returned and not been used yet
InGetBestMove == pc \in {"get_best_move", "ai_init", "ai_click"}
GbmReturned == InGetBestMove /\ frames = <<>>
InGame == pc \in {"new", "loop", "ai_init", "ai_click", "crashed"}
\* moves applied and not yet undone
Nesting == Len(board.move_stack) - Len(board0.move_stack)

\* depth-limited minimax without pruning: same move order, same terminal
\* test, same evaluator
RECURSIVE FullMinimax(_, _, _, _)
FullMinimax(g, b, d, maximizing) ==
    IF IsTerminal(d, g, b)
    THEN evaluate(g, b)
    ELSE LET vs == {FullMinimax(g, push(b, m), ChildDepth(d), ~maximizing) :
                      m \in legal_moves(g, b)}
         IN IF maximizing
            THEN CHOOSE v \in vs : \A w \in vs : w <= v
            ELSE CHOOSE v \in vs : \A w \in vs : v <= w

\* C1: when get_best_move returns, the board (move stack and side to move)
\* is what it was when the call was made, and every push of the call has
\* been undone by one pop
C1_PositionRestored ==
    GbmReturned => board = board0 /\ pushes = pops

C1_Witness ==
    /\ pc = "get_best_move"
    /\ frames = <<>>
    /\ depth = MaxDepth
    /\ pushes >= 6
    /\ cuts >= 1
    /\ board = board0

\* C2: a minimax call made with the bounds (-inf, +inf) returns the value
\* of the unpruned minimax of the same position, depth and flag
C2_AlphaBetaEquivalence ==
    (/\ last.op \in {"base", "return"}
     /\ last.a0 = -Inf
     /\ last.b0 = Inf)
    => ret = FullMinimax(game, board, last.depth, last.maximizing)

C2_Witness ==
    /\ pc = "minimax"
    /\ frames = <<>>
    /\ last.op = "return"
    /\ last.maximizing
    /\ cuts >= 2
    /\ ret = FullMinimax(game, board, depth, TRUE)

\* C3: on a position without legal moves get_best_move returns None and
\* has applied nothing; and in ChessGame a position without legal moves
\* leaves game_over set and no AI move pending, so none is applied
C3_NoMoveSignalled ==
    /\ (GbmReturned /\ NumLegal(game, board0) = 0)
         => (result = None /\ pushes = 0 /\ board = board0)
    /\ (InGame /\ frames = <<>> /\ NumLegal(game, board) = 0)
         => (game_over /\ pc = "loop")

C3_Witness ==
    /\ pc = "get_best_move"
    /\ last.op = "gbm_return"
    /\ NumLegal(game, board0) = 0
    /\ is_stalemate(game, board0)
    /\ result = None

\* C4: get_best_move returns the first root move, in enumeration order,
\* whose search value is the greatest
C4_FirstGreatest ==
    GbmReturned =>
        /\ Len(values) = NumLegal(game, board0)
        /\ IF values = <<>>
           THEN result = None
           ELSE /\ result \in 1..Len(values)
                /\ \A j \in 1..Len(values) : values[j] <= values[result]
                /\ \A j \in 1..(result - 1) : values[j] < values[result]

C4_Witness ==
    /\ GbmReturned
    /\ result # None
    /\ \E j \in 1..Len(values) : j > result /\ values[j] = values[result]

\* C5: every minimax call is entered with alpha <= beta, and a level goes
\* on to its next move only while alpha < beta
C5_BoundsOrdered ==
    \A k \in 1..Len(frames) :
        frames[k].fn = "minimax" =>
            /\ frames[k].a0 <= frames[k].b0
            /\ frames[k].pc \in {"entry", "loop", "wait"}
                 => frames[k].alpha < frames[k].beta

C5_Witness ==
    /\ Running
    /\ Top.fn = "minimax"
    /\ Top.pc = "entry"
    /\ Top.alpha > -Inf
    /\ Top.beta < Inf
    /\ Top.alpha < Top.beta

\* C6: the pushes not yet undone are exactly the moves the waiting calls
\* are examining, innermost last; a call that is not waiting for a child
\* (before its next move, after a break, about to return) has the board it
\* was entered with
C6_PushPopLifo ==
    /\ \A k \in 1..Len(frames) :
          LET f == frames[k] IN
          IF k < Len(frames)
          THEN f.pc = "wait" /\ frames[k + 1].entry = push(f.entry, f.i)
          ELSE IF f.pc = "wait"
               THEN board = push(f.entry, f.i)
               ELSE board = f.entry
    /\ Running => /\ frames[1].entry = board0
                  /\ pushes - pops = Nesting

C6_Witness ==
    /\ Running
    /\ Len(frames) >= 3
    /\ Top.fn = "minimax"
    /\ Top.pc = "break"
    /\ Top.i < NumLegal(game, board)
    /\ board = Top.entry

\* C7: a minimax call with depth 0 or on a position where the game is over
\* returns evaluate of that position without applying a move; no call
\* iterates over the moves of such a position
C7_BaseCase ==
    /\ last.op = "base" => ret = evaluate(game, board)
    /\ \A k \in 1..Len(frames) :
          (frames[k].fn = "minimax" /\ frames[k].pc # "entry")
            => (frames[k].depth # 0 /\ ~is_game_over(game, frames[k].entry))

C7_Witness ==
    /\ last.op = "base"
    /\ last.depth >= 2
    /\ is_checkmate(game, board)
    /\ Running
    /\ Top.pc = "wait"
    /\ board = push(Top.entry, Top.i)
    /\ ret = evaluate(game, board)

\* C8 as stated: during get_best_move the moves applied and not yet undone
\* never exceed the configured depth, whatever the depth
C8_NestingWithinDepth ==
    (Running /\ frames[1].fn = "get_best_move") => Nesting <= depth

\* C8 amended: for a depth of at least 1, get_best_move returns, and until
\* then the moves applied and not yet undone never exceed the depth
C8_TerminatesWithinDepth ==
    /\ [](depth >= 1 => C8_NestingWithinDepth)
    /\ (depth >= 1 /\ Running) ~> (frames = <<>>)

C8_Witness ==
    /\ Running
    /\ frames[1].fn = "get_best_move"
    /\ depth = DefaultDepth
    /\ Nesting = depth
    /\ Top.pc = "entry"
    /\ ~is_game_over(game, board)

\* the first root move whose unpruned alternating value, the opponent
\* minimizing first, is the greatest; None without legal moves
ExactBest(g, b, d) ==
    LET val(m) == FullMinimax(g, push(b, m), d - 1, FALSE)
        n == NumLegal(g, b)
    IN IF n = 0 THEN None
       ELSE CHOOSE m \in 1..n :
              /\ \A j \in 1..n : val(j) <= val(m)
              /\ \A j \in 1..(m - 1) : val(j) < val(m)

\* C9: below get_best_move the maximizing flag is the parity of the ply
\* (False for the root's children, which get the bounds (-inf, +inf)),
\* whichever side is to move; the move returned is the first root move of
\* greatest exact alternating value in White-positive score
C9_FlagByPly ==
    /\ InGetBestMove =>
          \A k \in 2..Len(frames) :
              /\ frames[k].maximizing = (k % 2 = 1)
              /\ k = 2 => (frames[k].a0 = -Inf /\ frames[k].b0 = Inf)
    /\ GbmReturned => result = ExactBest(game, board0, depth)

C9_Witness ==
    /\ pc = "ai_click"
    /\ frames = <<>>
    /\ ai_color = BLACK
    /\ board0.turn = BLACK
    /\ result = ExactBest(game, board0, depth)
    /\ \E m \in legal_moves(game, board0) : values[m] < values[result]

\* C10: make_ai_move runs only when the game is not over, on the AI's turn,
\* on a position with a legal move; every root value is finite, the move
\* get_best_move returns is a legal move and never None, and that is the
\* move pushed
C10_AiMovesLegal ==
    /\ pc # "crashed"
    /\ pc \in {"ai_init", "ai_click"} =>
          /\ ~game_over
          /\ board0.turn = ai_color
          /\ NumLegal(game, board0) >= 1
          /\ \A j \in 1..Len(values) : -Inf < values[j] /\ values[j] < Inf
          /\ frames = <<>> => (result # None /\ result \in legal_moves(game, board))
    /\ last.op = "ai_push" =>
          /\ last.move # None
          /\ board.move_stack # <<>>
          /\ board = push(board0, last.move)
          /\ last.move \in legal_moves(game, board0)
          /\ board.turn = human_color

C10_Witness ==
    /\ last.op = "ai_push"
    /\ Len(board.move_stack) >= 4
    /\ ai_color = BLACK
    /\ pc = "loop"
====
